---- MODULE Spec2Model ----
(***************************************************************************)
(* mdtoc: table of contents of a markdown file (src/mdtoc/mdtoc.py).       *)
(*                                                                         *)
(* Strings are sequences of character codes, so that startswith, rstrip,   *)
(* split, join, lower and the string order of sorted() are computed the    *)
(* way Python computes them.  Four specifications share the variables:    *)
(*   SpecWL     _get_heading_whitelist, one loop iteration per step        *)
(*   SpecParse  parse_file over a file of short lines, read line by line   *)
(*   SpecLine   parse_file over a long heading line, alone or repeated     *)
(*   SpecMain   get_args, main and the __main__ entry                      *)
(***************************************************************************)
EXTENDS Integers, Sequences, FiniteSets

VARIABLES
    pc,                 \* position in the function being run
    args,               \* main: the parsed command line (argparse namespace)
    wl_args,            \* _get_heading_whitelist: its parameter args
    wl_pos,             \* _get_heading_whitelist: position of the for loop in args
    user_whitelist,     \* _get_heading_whitelist: user_whitelist
    headings,           \* parse_file: headings / main: heading_whitelist
    line,               \* parse_file: the line of the current iteration
    fenced_code,        \* parse_file: fenced_code
    table_of_contents,  \* parse_file: table_of_contents
    raised,             \* the exception that left the function, "none" if none
    nread,              \* history: number of lines read so far
    before,             \* history: table_of_contents before the current iteration
    fences_before,      \* history: lines starting with ``` read before the current line
    hash_lines,         \* history: lines starting with # read so far
    results,            \* main: results
    stdout,             \* what print() wrote, in order
    clipboard,          \* the system clipboard's text
    ret,                \* main: its return value, -1 before it returns
    exit_code,          \* the process exit code, -1 while it runs
    opened,             \* history: open(path) was called
    parsed              \* history: parse_file was called

vars == <<pc, args, wl_args, wl_pos, user_whitelist, headings, line, fenced_code,
          table_of_contents, raised, nread, before, fences_before, hash_lines,
          results, stdout, clipboard, ret, exit_code, opened, parsed>>

(***************************************************************************)
(* Characters                                                              *)
(***************************************************************************)
NL   == 10
SP   == 32
LP   == 40
RP   == 41
HY   == 45
HASH == 35
LB   == 91
RB   == 93
BT   == 96

\* str.isspace for the ASCII range: what split() and rstrip() treat as whitespace.
IsSpace(c) == c \in {9, 10, 11, 12, 13, 28, 29, 30, 31, 32}

\* str.lower for the ASCII range, one character.
ToLower(c) == IF c \in 65..90 THEN c + 32 ELSE c

(***************************************************************************)
(* String functions                                                        *)
(***************************************************************************)
Lower(s) == [k \in DOMAIN s |-> ToLower(s[k])]

StartsWith(s, p) == Len(s) >= Len(p) /\ SubSeq(s, 1, Len(p)) = p

RECURSIVE RStrip(_)
RStrip(s) ==
    IF s # <<>> /\ IsSpace(s[Len(s)]) THEN RStrip(SubSeq(s, 1, Len(s) - 1)) ELSE s

\* str.split() without a separator: runs of whitespace separate the tokens, and
\* leading and trailing whitespace yields no empty token.
RECURSIVE SplitFrom(_, _, _, _)
SplitFrom(s, i, cur, acc) ==
    IF i > Len(s)
    THEN IF cur = <<>> THEN acc ELSE Append(acc, cur)
    ELSE IF IsSpace(s[i])
         THEN SplitFrom(s, i + 1, <<>>, IF cur = <<>> THEN acc ELSE Append(acc, cur))
         ELSE SplitFrom(s, i + 1, Append(cur, s[i]), acc)

Split(s) == SplitFrom(s, 1, <<>>, <<>>)

\* sep.join(toks)
RECURSIVE Join(_, _)
Join(sep, toks) ==
    IF toks = <<>> THEN <<>>
    ELSE IF Len(toks) = 1 THEN toks[1]
    ELSE toks[1] \o sep \o Join(sep, Tail(toks))

\* x in l, for a list l
InList(x, l) == \E k \in DOMAIN l : l[k] = x

\* s < t in Python's string order: character by character, a proper prefix first.
RECURSIVE StrLess(_, _)
StrLess(s, t) ==
    IF t = <<>> THEN FALSE
    ELSE IF s = <<>> THEN TRUE
    ELSE IF s[1] # t[1] THEN s[1] < t[1]
    ELSE StrLess(Tail(s), Tail(t))

\* All sequences over S of length n, and of length at most n.
RECURSIVE SeqsOfLen(_, _)
SeqsOfLen(S, n) ==
    IF n = 0 THEN {<<>>}
    ELSE {Append(s, x) : s \in SeqsOfLen(S, n - 1), x \in S}

SeqsUpTo(S, n) == UNION {SeqsOfLen(S, m) : m \in 0..n}

(***************************************************************************)
(* _get_heading_whitelist                                                  *)
(***************************************************************************)
Hashes(n) == [k \in 1..n |-> HASH]

NumLevels == 6

WHITELIST == [n \in 1..NumLevels |-> Hashes(n)]

\* l[k] for a Python list l and an int k: a negative k counts from the end.
IndexOK(l, k) == -Len(l) <= k /\ k < Len(l)

PyIndex(l, k) == IF k >= 0 THEN l[k + 1] ELSE l[Len(l) + k + 1]

Diagnostic(i) == [tag |-> "[-w] Invalid argument", val |-> <<i>>]

\* The for loop inside the try: the first IndexError ends the loop and is printed.
RECURSIVE WhitelistLoop(_, _, _)
WhitelistLoop(a, k, uw) ==
    IF k > Len(a) THEN [uw |-> uw, out |-> <<>>]
    ELSE IF IndexOK(WHITELIST, a[k] - 1)
         THEN WhitelistLoop(a, k + 1, Append(uw, PyIndex(WHITELIST, a[k] - 1)))
         ELSE [uw |-> uw, out |-> <<Diagnostic(a[k])>>]

\* user_whitelist or WHITELIST
OrDefault(uw) == IF uw # <<>> THEN uw ELSE WHITELIST

\* The whole call: the list returned and what was printed.  None and the empty
\* list are both falsy in "if args:", so <<>> stands for either.
GetHeadingWhitelist(a) ==
    LET r == WhitelistLoop(a, 1, <<>>)
    IN  [headings |-> OrDefault(r.uw), out |-> r.out]

(***************************************************************************)
(* parse_file                                                              *)
(***************************************************************************)
FENCE == <<BT, BT, BT>>

\* if line.startswith("```"): fenced_code = not fenced_code
\* (ToggleSticky: the flag is set and never cleared)
ToggleSticky(fenced, l) == IF StartsWith(l, FENCE) THEN TRUE ELSE fenced

Toggle(fenced, l) == IF StartsWith(l, FENCE) THEN ~fenced ELSE fenced

\* if not fenced_code and line.startswith('#')
\* (IsHeadingLineAnyFence: without the test of the flag; IsHeadingLineAnyStart:
\* without the test of the first character)
IsHeadingLineAnyFence(fenced, l) == StartsWith(l, <<HASH>>)

IsHeadingLineAnyStart(fenced, l) == ~fenced

IsHeadingLine(fenced, l) == ~fenced /\ StartsWith(l, <<HASH>>)

\* tokens = line.rstrip().split()
Tokens(l) == Split(RStrip(l))

\* tokens[1:]
Rest(tokens) == IF tokens = <<>> THEN <<>> ELSE Tail(tokens)

\* title = ' '.join(tokens[1:])
Title(tokens) == Join(<<SP>>, Rest(tokens))

\* link = '-'.join(tokens[1:]).lower()
\* (LinkNotLowered: without .lower())
LinkNotLowered(tokens) == Join(<<HY>>, Rest(tokens))

Link(tokens) == Lower(Join(<<HY>>, Rest(tokens)))

\* f"[{title}](#{link})"
Entry(title, link) == <<LB>> \o title \o <<RB, LP, HASH>> \o link \o <<RP>>

\* tokens[0] in headings
\* (KeptWithText: a heading without text is skipped as well)
KeptWithText(tokens, hs) == Len(tokens) > 1 /\ InList(tokens[1], hs)

Kept(tokens, hs) == InList(tokens[1], hs)

\* One iteration of "for line in file_handle".  tokens[0] raises IndexError
\* when the line has no token.
LoopBody(l, fenced, toc, hs) ==
    LET f == Toggle(fenced, l)
    IN  IF ~IsHeadingLine(f, l)
        THEN [fenced |-> f, toc |-> toc, raised |-> "none"]
        ELSE LET tokens == Tokens(l)
             IN  IF tokens = <<>>
                 THEN [fenced |-> f, toc |-> toc, raised |-> "IndexError"]
                 ELSE IF Kept(tokens, hs)
                      THEN [fenced |-> f,
                            toc    |-> Append(toc, Entry(Title(tokens), Link(tokens))),
                            raised |-> "none"]
                      ELSE [fenced |-> f, toc |-> toc, raised |-> "none"]

\* The whole call on a list of lines.
RECURSIVE ParseFrom(_, _, _, _, _)
ParseFrom(lines, k, fenced, toc, hs) ==
    IF k > Len(lines) THEN [toc |-> toc, raised |-> "none"]
    ELSE LET r == LoopBody(lines[k], fenced, toc, hs)
         IN  IF r.raised # "none" THEN [toc |-> r.toc, raised |-> r.raised]
             ELSE ParseFrom(lines, k + 1, r.fenced, r.toc, hs)

ParseFile(lines, hs) == ParseFrom(lines, 1, FALSE, <<>>, hs)

(***************************************************************************)
(* Bounds and inputs                                                       *)
(***************************************************************************)
MaxLines    == 3    \* lines of a file read line by line
MaxLineLen  == 2    \* characters of such a line, the fence line apart
LongLineLen == 6    \* characters of a long heading line
MaxArgs     == 2    \* values after -w
MaxChars    == 5    \* characters of the file main opens

\* space, "#" and "`"
Alphabet == {SP, HASH, BT}

\* The lines a file is made of: every short line, and the bare fence line.
\* A line is given without its newline, which rstrip() removes with the other
\* trailing whitespace; the file main opens (Files) keeps its newlines.
FileLines == SeqsUpTo(Alphabet, MaxLineLen) \cup {FENCE}

\* tab, space, "#" and "A"; a heading line starts with "#"
HeadingAlphabet == {9, SP, HASH, 65}

HeadingLines ==
    {<<HASH>> \o s : s \in SeqsUpTo(HeadingAlphabet, LongLineLen - 1)}

\* The level lists parse_file is given: the default, every single level and
\* every two levels.
LevelLists ==
    {WHITELIST}
      \cup {<<WHITELIST[m]>> : m \in 1..NumLevels}
      \cup {<<WHITELIST[p[1]], WHITELIST[p[2]]>> :
                p \in {q \in (1..NumLevels) \X (1..NumLevels) : q[1] < q[2]}}

NoArgs == [exists |-> FALSE, suffix |-> <<>>, alphabetical |-> FALSE,
           clipboard |-> FALSE, output |-> FALSE, whitelist |-> <<>>]

(***************************************************************************)
(* parse_file, one loop iteration per step                                 *)
(***************************************************************************)
IdleMain ==
    /\ args = NoArgs
    /\ results = <<>>
    /\ stdout = <<>>
    /\ clipboard = <<>>
    /\ ret = -1
    /\ exit_code = -1
    /\ opened = FALSE
    /\ parsed = FALSE

IdleWL ==
    /\ wl_args = <<>>
    /\ wl_pos = 0
    /\ user_whitelist = <<>>

InitParse ==
    /\ pc = "parse"
    /\ headings \in LevelLists
    /\ line = <<>>
    /\ fenced_code = FALSE
    /\ table_of_contents = <<>>
    /\ raised = "none"
    /\ nread = 0
    /\ before = <<>>
    /\ fences_before = 0
    /\ hash_lines = 0
    /\ IdleWL
    /\ IdleMain

\* The loop body on line l, with the history of what was read.
Iteration(l) ==
    LET r == LoopBody(l, fenced_code, table_of_contents, headings)
    IN  /\ line' = l
        /\ fenced_code' = r.fenced
        /\ table_of_contents' = r.toc
        /\ raised' = r.raised
        /\ pc' = IF r.raised = "none" THEN pc ELSE "raised"
        /\ nread' = nread + 1
        /\ before' = table_of_contents
        /\ fences_before' =
               IF nread > 0 /\ StartsWith(line, FENCE)
               THEN fences_before + 1 ELSE fences_before
        /\ hash_lines' = IF StartsWith(l, <<HASH>>) THEN hash_lines + 1 ELSE hash_lines
        /\ UNCHANGED <<args, wl_args, wl_pos, user_whitelist, headings, results,
                       stdout, clipboard, ret, exit_code, opened, parsed>>

\* for line in file_handle: the file yields its next line
ReadLine ==
    /\ pc = "parse"
    /\ nread < MaxLines
    /\ \E l \in FileLines : Iteration(l)

\* the file is exhausted: return table_of_contents
ParseReturn ==
    /\ pc = "parse"
    /\ pc' = "returned"
    /\ results' = table_of_contents
    /\ UNCHANGED <<args, wl_args, wl_pos, user_whitelist, headings, line, fenced_code,
                   table_of_contents, raised, nread, before, fences_before,
                   hash_lines, stdout, clipboard, ret, exit_code, opened, parsed>>

NextParse == ReadLine \/ ParseReturn

SpecParse == InitParse /\ [][NextParse]_vars

\* A file of one heading line, or of the same heading line twice.
ReadHeading ==
    /\ pc = "parse"
    /\ nread = 0
    /\ \E l \in HeadingLines : Iteration(l)

ReadHeadingAgain ==
    /\ pc = "parse"
    /\ nread = 1
    /\ Iteration(line)

NextLine == ReadHeading \/ ReadHeadingAgain \/ ParseReturn

SpecLine == InitParse /\ [][NextLine]_vars

(***************************************************************************)
(* Properties of parse_file                                                *)
(***************************************************************************)
Odd(n) == n % 2 = 1

IsHashLine(l) == l # <<>> /\ l[1] = HASH

\* The whitespace-delimited words of a line, stated by their places: a word is
\* a maximal run of characters that are not whitespace.
WordSpans(l) ==
    {sp \in (1..Len(l)) \X (1..Len(l)) :
        /\ sp[1] <= sp[2]
        /\ \A k \in sp[1]..sp[2] : ~IsSpace(l[k])
        /\ (sp[1] = 1 \/ IsSpace(l[sp[1] - 1]))
        /\ (sp[2] = Len(l) \/ IsSpace(l[sp[2] + 1]))}

WordsIn(l, spans) ==
    [m \in 1..Cardinality(spans) |->
        LET sp == CHOOSE s \in spans : Cardinality({q \in spans : q[1] < s[1]}) = m - 1
        IN  SubSeq(l, sp[1], sp[2])]

Words(l) == WordsIn(l, WordSpans(l))

FirstWord(l) == SubSeq(l, 1, (CHOOSE sp \in WordSpans(l) : sp[1] = 1)[2])

\* The first word of the current line is a member of the level list.
MarkerAllowed == IsHashLine(line) /\ InList(FirstWord(line), headings)

\* The current iteration appended exactly one entry, or none.
OneEntry ==
    /\ Len(table_of_contents) = Len(before) + 1
    /\ SubSeq(table_of_contents, 1, Len(before)) = before

NoEntry == table_of_contents = before

LastEntry == table_of_contents[Len(table_of_contents)]

\* C1: a line starting with "#" that an odd number of lines starting with
\* three backticks precede (it lies in a fenced block that is open, closed
\* later or never) produces no entry, whatever its marker.
C1_FencedHeadingNoEntry ==
    (nread > 0 /\ IsHashLine(line) /\ Odd(fences_before)) => NoEntry

\* C1's case: a heading with an allowed marker inside an open fenced block.
C1_Witness ==
    /\ nread > 0
    /\ Odd(fences_before)
    /\ MarkerAllowed
    /\ pc = "returned"

\* C2: outside a fenced block (an even number of three-backtick lines precede
\* it) a line starting with "#" produces exactly one entry if its first word
\* is in the level list and none if it is not; a line not starting with "#"
\* produces none, and a file without any "#" line yields the empty list.
C2_EntryIffMarkerAllowed ==
    /\ (nread > 0 /\ IsHashLine(line) /\ ~Odd(fences_before))
          => IF MarkerAllowed THEN OneEntry ELSE NoEntry
    /\ (nread > 0 /\ ~IsHashLine(line)) => NoEntry
    /\ hash_lines = 0 => table_of_contents = <<>>
    /\ pc = "returned" => results = table_of_contents

\* C2's case: a kept heading after a fenced block that was opened and closed.
C2_Witness ==
    /\ nread = 3
    /\ fences_before = 2
    /\ MarkerAllowed
    /\ OneEntry
    /\ pc = "returned"

\* C8: outside a fenced block a line that is an allowed marker and nothing
\* else (whitespace may follow) is emitted as the entry "[](#)".
C8_EmptyHeadingEmitted ==
    (nread > 0 /\ ~Odd(fences_before) /\ MarkerAllowed
          /\ Cardinality(WordSpans(line)) = 1)
        => /\ OneEntry
           /\ LastEntry = <<LB, RB, LP, HASH, RP>>
           /\ raised = "none"

\* C8's case: "#" followed by whitespace and nothing else, with "#" allowed,
\* after a fenced block that was opened and closed.
C8_Witness ==
    /\ nread > 0
    /\ line = <<HASH, SP>>
    /\ fences_before = 2
    /\ InList(<<HASH>>, headings)
    /\ LastEntry = <<LB, RB, LP, HASH, RP>>

\* C10: parse_file never raises: the lookup of the first token is defined
\* whenever it is reached.
C10_NeverRaises == raised = "none" /\ pc # "raised"

\* C10's case: the lookup is reached on a malformed line ("#" followed
\* directly by another character, so the first token is no marker), and the
\* line just yields no entry.
C10_Witness ==
    /\ nread > 0
    /\ ~fenced_code
    /\ IsHashLine(line)
    /\ ~InList(FirstWord(line), WHITELIST)
    /\ NoEntry
    /\ pc = "returned"

\* The title and the anchor read back from a rendered entry "[title](#anchor)"
\* whose two parts are equally long.
PartLen(e) == (Len(e) - 5) \div 2

TitleOf(e) == SubSeq(e, 2, PartLen(e) + 1)

AnchorOf(e) == SubSeq(e, PartLen(e) + 5, 2 * PartLen(e) + 4)

WellFormedEntry(e) ==
    /\ Len(e) = 2 * PartLen(e) + 5
    /\ e[1] = LB
    /\ SubSeq(e, PartLen(e) + 2, PartLen(e) + 4) = <<RB, LP, HASH>>
    /\ e[Len(e)] = RP

\* t holds the given words, in order, with exactly one space between two of
\* them and no other whitespace.
SingleSpaced(t, ws) ==
    /\ Words(t) = ws
    /\ \A k \in DOMAIN t :
          IsSpace(t[k]) => /\ t[k] = SP
                           /\ 1 < k /\ k < Len(t)
                           /\ ~IsSpace(t[k + 1])

\* C6: for a kept heading line the title is the words after the marker joined
\* by exactly one space, however much whitespace separated them, and the
\* anchor is the lower-cased title with every space replaced by a hyphen; the
\* same heading twice gives the same entry twice.
C6_TitleAndAnchor ==
    (nread > 0 /\ MarkerAllowed) =>
        LET title  == TitleOf(LastEntry)
            anchor == AnchorOf(LastEntry)
        IN  /\ Len(table_of_contents) = nread
            /\ WellFormedEntry(LastEntry)
            /\ SingleSpaced(title, Tail(Words(line)))
            /\ anchor = [k \in DOMAIN title |->
                             IF title[k] = SP THEN HY ELSE ToLower(title[k])]
            /\ nread = 2 => table_of_contents[1] = table_of_contents[2]

\* C6's case: "# A<tab><space>A" read twice, with "#" allowed: two words after
\* the marker, separated by two whitespace characters.
C6_Witness ==
    /\ nread = 2
    /\ line = <<HASH, SP, 65, 9, SP, 65>>
    /\ MarkerAllowed
    /\ Len(table_of_contents) = 2
    /\ pc = "returned"

(***************************************************************************)
(* _get_heading_whitelist as one call                                      *)
(***************************************************************************)
\* The integers after -w: one below the range Python indexes, the values that
\* index from the end, the six levels, one above.
ArgValues == (-NumLevels)..(NumLevels + 1)

WhitelistArgs == SeqsUpTo(ArgValues, MaxArgs)

IdleParse ==
    /\ line = <<>>
    /\ fenced_code = FALSE
    /\ table_of_contents = <<>>
    /\ nread = 0
    /\ before = <<>>
    /\ fences_before = 0
    /\ hash_lines = 0

InitWL ==
    /\ pc = "whitelist"
    /\ wl_args \in WhitelistArgs
    /\ wl_pos = 1
    /\ user_whitelist = <<>>
    /\ headings = <<>>
    /\ raised = "none"
    /\ IdleParse
    /\ IdleMain

\* for i in args: user_whitelist.append(WHITELIST[i - 1])
WLAppend ==
    /\ pc = "whitelist"
    /\ wl_pos <= Len(wl_args)
    /\ IndexOK(WHITELIST, wl_args[wl_pos] - 1)
    /\ user_whitelist' = Append(user_whitelist, PyIndex(WHITELIST, wl_args[wl_pos] - 1))
    /\ wl_pos' = wl_pos + 1
    /\ UNCHANGED <<pc, args, wl_args, headings, line, fenced_code, table_of_contents,
                   raised, nread, before, fences_before, hash_lines, results, stdout,
                   clipboard, ret, exit_code, opened, parsed>>

\* except IndexError: print(f"[-w] Invalid argument: {i}"), which ends the loop
WLIndexError ==
    /\ pc = "whitelist"
    /\ wl_pos <= Len(wl_args)
    /\ ~IndexOK(WHITELIST, wl_args[wl_pos] - 1)
    /\ stdout' = Append(stdout, Diagnostic(wl_args[wl_pos]))
    /\ pc' = "whitelist_return"
    /\ UNCHANGED <<args, wl_args, wl_pos, user_whitelist, headings, line, fenced_code,
                   table_of_contents, raised, nread, before, fences_before,
                   hash_lines, results, clipboard, ret, exit_code, opened, parsed>>

\* return user_whitelist or WHITELIST
WLReturn ==
    /\ \/ pc = "whitelist_return"
       \/ pc = "whitelist" /\ wl_pos > Len(wl_args)
    /\ headings' = OrDefault(user_whitelist)
    /\ pc' = "whitelist_done"
    /\ UNCHANGED <<args, wl_args, wl_pos, user_whitelist, line, fenced_code,
                   table_of_contents, raised, nread, before, fences_before,
                   hash_lines, results, stdout, clipboard, ret, exit_code, opened,
                   parsed>>

NextWL == WLAppend \/ WLIndexError \/ WLReturn

SpecWL == InitWL /\ [][NextWL]_vars

Elements(l) == {l[k] : k \in DOMAIN l}

ValidLevels(a) == {n \in Elements(a) : 1 <= n /\ n <= NumLevels}

\* The steps agree with the call as main makes it.
WLStepsAgreeWithCall ==
    pc = "whitelist_done" =>
        /\ headings = GetHeadingWhitelist(wl_args).headings
        /\ stdout = GetHeadingWhitelist(wl_args).out

\* C4: the resolved level set is exactly the markers of the supplied values in
\* 1..6; every other value, 0 and the negative ones included, contributes
\* nothing; the set is the full one iff no supplied value is valid; it is
\* never empty.
C4_ExactlyTheValidLevels ==
    pc = "whitelist_done" =>
        /\ Elements(headings) =
              IF ValidLevels(wl_args) = {} THEN Elements(WHITELIST)
              ELSE {Hashes(n) : n \in ValidLevels(wl_args)}
        /\ headings # <<>>

\* C7: one diagnostic is printed per supplied value outside 1..6, for every
\* such value and not only the first.
C7_DiagnosticPerInvalidValue ==
    pc = "whitelist_done" =>
        /\ \A k \in DOMAIN wl_args :
              wl_args[k] \notin 1..NumLevels => InList(Diagnostic(wl_args[k]), stdout)
        /\ Len(stdout) = Cardinality({k \in DOMAIN wl_args : wl_args[k] \notin 1..NumLevels})

(***************************************************************************)
(* _valid_path, sorted, set_win_clipboard                                  *)
(***************************************************************************)
\* ".md" and ".markdown", the two entries of the list in _valid_path
SuffixMd == <<46, 109, 100>>

SuffixMarkdown == <<46, 109, 97, 114, 107, 100, 111, 119, 110>>

\* path.exists() and path.suffix.lower() in [".md", ".markdown"]
\* (ValidPathExistsOnly: without the test of the suffix)
ValidPathExistsOnly(a) == a.exists

ValidPath(a) == a.exists /\ Lower(a.suffix) \in {SuffixMd, SuffixMarkdown}

\* What _valid_path prints when it returns False.
PathError(a) ==
    IF ~a.exists
    THEN [tag |-> "ERROR:  Invalid path or destination.", val |-> <<>>]
    ELSE [tag |-> "ERROR:  Expected file format is '.md' or '.markdown'", val |-> <<>>]

\* sorted(results): a stable sort of the rendered strings by the string order.
RECURSIVE InsertSorted(_, _)
InsertSorted(x, l) ==
    IF l = <<>> THEN <<x>>
    ELSE IF StrLess(x, l[1]) THEN <<x>> \o l
    ELSE <<l[1]>> \o InsertSorted(x, Tail(l))

RECURSIVE SortedFrom(_, _, _)
SortedFrom(l, k, acc) ==
    IF k > Len(l) THEN acc ELSE SortedFrom(l, k + 1, InsertSorted(l[k], acc))

Sorted(l) == SortedFrom(l, 1, <<>>)

\* for line in results: print(line)
PrintAll(out, rs) == out \o [k \in DOMAIN rs |-> [tag |-> "entry", val |-> rs[k]]]

\* for line in file_handle: the text up to and including each newline, and
\* what follows the last newline if anything does.
RECURSIVE LinesFrom(_, _, _, _)
LinesFrom(text, k, cur, acc) ==
    IF k > Len(text)
    THEN IF cur = <<>> THEN acc ELSE Append(acc, cur)
    ELSE IF text[k] = NL
         THEN LinesFrom(text, k + 1, <<>>, Append(acc, Append(cur, NL)))
         ELSE LinesFrom(text, k + 1, Append(cur, text[k]), acc)

FileLinesOf(text) == LinesFrom(text, 1, <<>>, <<>>)

(***************************************************************************)
(* get_args, main and the __main__ entry                                   *)
(***************************************************************************)
\* newline, space, "#" and "A"
FileAlphabet == {NL, SP, HASH, 65}

Files == SeqsUpTo(FileAlphabet, MaxChars)

\* ".md", ".MD", ".markdown", ".txt" and no suffix
Suffixes == {SuffixMd, <<46, 77, 68>>, SuffixMarkdown, <<46, 116, 120, 116>>, <<>>}

\* -w absent, or -w with one value: 0, a level 1 or 2, or 7
MainWhitelists == {<<>>} \cup {<<n>> : n \in {0, 1, 2, NumLevels + 1}}

\* What the clipboard holds before the run: "A"
OldClipboard == <<65>>

\* get_args: the namespace argparse returns.  The flags -c and -o are
\* store_false: clipboard and output are True unless the flag is given.
InitMain ==
    /\ pc = "main"
    /\ args \in [exists : BOOLEAN, suffix : Suffixes, alphabetical : BOOLEAN,
                 clipboard : BOOLEAN, output : BOOLEAN, whitelist : MainWhitelists]
    /\ headings = <<>>
    /\ results = <<>>
    /\ stdout = <<>>
    /\ clipboard = OldClipboard
    /\ ret = -1
    /\ exit_code = -1
    /\ opened = FALSE
    /\ parsed = FALSE
    /\ raised = "none"
    /\ IdleWL
    /\ IdleParse

\* heading_whitelist = _get_heading_whitelist(args.whitelist)
MainWhitelist ==
    /\ pc = "main"
    /\ headings' = GetHeadingWhitelist(args.whitelist).headings
    /\ stdout' = stdout \o GetHeadingWhitelist(args.whitelist).out
    /\ pc' = "valid_path"
    /\ UNCHANGED <<args, wl_args, wl_pos, user_whitelist, line, fenced_code,
                   table_of_contents, raised, nread, before, fences_before,
                   hash_lines, results, clipboard, ret, exit_code, opened, parsed>>

\* if not _valid_path(path): return 1
MainValidPath ==
    /\ pc = "valid_path"
    /\ IF ValidPath(args)
       THEN /\ pc' = "open"
            /\ UNCHANGED <<stdout, ret>>
       ELSE /\ stdout' = Append(stdout, PathError(args))
            /\ ret' = 1
            /\ pc' = "returned"
    /\ UNCHANGED <<args, wl_args, wl_pos, user_whitelist, headings, line, fenced_code,
                   table_of_contents, raised, nread, before, fences_before,
                   hash_lines, results, clipboard, exit_code, opened, parsed>>

\* with open(path, 'r') as file_handle: results = parse_file(...)
\* An exception of parse_file that is no OSError leaves main and ends the
\* process with a traceback and exit code 1.
MainParse ==
    /\ pc = "open"
    /\ \E text \in Files :
          LET r == ParseFile(FileLinesOf(text), headings)
          IN  /\ table_of_contents' = r.toc
              /\ raised' = r.raised
              /\ IF r.raised = "none"
                 THEN /\ results' = r.toc
                      /\ pc' = "check"
                      /\ UNCHANGED exit_code
                 ELSE /\ pc' = "exited"
                      /\ exit_code' = 1
                      /\ UNCHANGED results
    /\ opened' = TRUE
    /\ parsed' = TRUE
    /\ UNCHANGED <<args, wl_args, wl_pos, user_whitelist, headings, line, fenced_code,
                   nread, before, fences_before, hash_lines, stdout, clipboard, ret>>

\* except OSError as e: print(e.strerror); return 1
\* open() fails, or a read fails while parse_file iterates the file.
MainOSError ==
    /\ pc = "open"
    /\ opened' = TRUE
    /\ \E reading \in BOOLEAN : parsed' = reading
    /\ stdout' = Append(stdout, [tag |-> "strerror", val |-> <<>>])
    /\ ret' = 1
    /\ pc' = "returned"
    /\ UNCHANGED <<args, wl_args, wl_pos, user_whitelist, headings, line, fenced_code,
                   table_of_contents, raised, nread, before, fences_before,
                   hash_lines, results, clipboard, exit_code>>

\* if not results: print("No Headers found."); return 1
MainNoHeaders ==
    /\ pc = "check"
    /\ results = <<>>
    /\ stdout' = Append(stdout, [tag |-> "No Headers found.", val |-> <<>>])
    /\ ret' = 1
    /\ pc' = "returned"
    /\ UNCHANGED <<args, wl_args, wl_pos, user_whitelist, headings, line, fenced_code,
                   table_of_contents, raised, nread, before, fences_before,
                   hash_lines, results, clipboard, exit_code, opened, parsed>>

\* if args.alphabetical: results = sorted(results)
MainSort ==
    /\ pc = "check"
    /\ results # <<>>
    /\ results' = IF args.alphabetical THEN Sorted(results) ELSE results
    /\ pc' = "print"
    /\ UNCHANGED <<args, wl_args, wl_pos, user_whitelist, headings, line, fenced_code,
                   table_of_contents, raised, nread, before, fences_before,
                   hash_lines, stdout, clipboard, ret, exit_code, opened, parsed>>

\* if args.output: for line in results: print(line)
MainPrint ==
    /\ pc = "print"
    /\ stdout' = IF args.output THEN PrintAll(stdout, results) ELSE stdout
    /\ pc' = "clipboard"
    /\ UNCHANGED <<args, wl_args, wl_pos, user_whitelist, headings, line, fenced_code,
                   table_of_contents, raised, nread, before, fences_before,
                   hash_lines, results, clipboard, ret, exit_code, opened, parsed>>

\* if args.clipboard: set_win_clipboard('\n'.join(results)); return 0
MainClipboard ==
    /\ pc = "clipboard"
    /\ clipboard' = IF args.clipboard THEN Join(<<NL>>, results) ELSE clipboard
    /\ ret' = 0
    /\ pc' = "returned"
    /\ UNCHANGED <<args, wl_args, wl_pos, user_whitelist, headings, line, fenced_code,
                   table_of_contents, raised, nread, before, fences_before,
                   hash_lines, results, stdout, exit_code, opened, parsed>>

\* The exit code after "main(args)" as the last statement of the script: the
\* value main returns is not passed on, and the interpreter ends with 0.
ExitCodeOf(r) == 0

\* __main__: main(args) has returned and the script ends
ProcessExit ==
    /\ pc = "returned"
    /\ exit_code' = ExitCodeOf(ret)
    /\ pc' = "exited"
    /\ UNCHANGED <<args, wl_args, wl_pos, user_whitelist, headings, line, fenced_code,
                   table_of_contents, raised, nread, before, fences_before,
                   hash_lines, results, stdout, clipboard, ret, opened, parsed>>

NextMain ==
    \/ MainWhitelist
    \/ MainValidPath
    \/ MainParse
    \/ MainOSError
    \/ MainNoHeaders
    \/ MainSort
    \/ MainPrint
    \/ MainClipboard
    \/ ProcessExit

SpecMain == InitMain /\ [][NextMain]_vars

(***************************************************************************)
(* Properties of main                                                      *)
(***************************************************************************)
\* How often x occurs in the list l.
Count(x, l) == Cardinality({k \in DOMAIN l : l[k] = x})

SameEntries(l, m) ==
    /\ Len(l) = Len(m)
    /\ \A k \in DOMAIN l : Count(l[k], l) = Count(l[k], m)

\* No entry stands before one whose title is smaller in the string order.
\* Entries with equal titles are equal, so this and SameEntries fix the list.
OrderedByTitle(l) ==
    \A i, j \in DOMAIN l : i < j => ~StrLess(TitleOf(l[j]), TitleOf(l[i]))

Sorting == pc \in {"print", "clipboard", "returned", "exited"} /\ ret # 1

C5_ExitCodeTellsFailure ==
    pc = "exited" =>
        /\ ret = 1 => exit_code = 1
        /\ exit_code = 0 => ret = 0

\* The suffix is ".md" or ".markdown" up to the case of its letters.
SameIgnoringCase(s, t) ==
    Len(s) = Len(t) /\ \A k \in DOMAIN s : ToLower(s[k]) = ToLower(t[k])

PathIsValid ==
    /\ args.exists
    /\ SameIgnoringCase(args.suffix, SuffixMd) \/ SameIgnoringCase(args.suffix, SuffixMarkdown)

NoEntryPrinted == \A k \in DOMAIN stdout : stdout[k].tag # "entry"

\* C9: when the path does not exist or its suffix is not .md/.markdown
\* (compared without regard to case), main returns 1 and the file is never
\* opened, parse_file never called, no entry printed, the clipboard not
\* written; and whenever main returns 1 (also after an OS error or with no
\* entries) no entry is printed and the clipboard is unchanged.
C9_FailureBeforeLaterSteps ==
    /\ ~PathIsValid =>
          /\ ~opened /\ ~parsed
          /\ NoEntryPrinted
          /\ clipboard = OldClipboard
          /\ pc \in {"returned", "exited"} => ret = 1
          /\ pc \in {"main", "valid_path", "returned", "exited"}
    /\ ret = 1 => NoEntryPrinted /\ clipboard = OldClipboard

\* C9's case: an existing file with the suffix ".txt", printing and copying
\* both enabled, after main has returned.
C9_Witness ==
    /\ pc = "exited"
    /\ args.exists
    /\ args.suffix = <<46, 116, 120, 116>>
    /\ args.output /\ args.clipboard
    /\ ret = 1

====
